---- MODULE Spec2Model ----
(***************************************************************************)
(* Execution subsystem of orbex: the job_runs / job_queue store, the       *)
(* worker poll loop and its supervised executions (executeRun), the        *)
(* heartbeat emitter and reaper, the cron scheduler, and the run control   *)
(* handlers (trigger, pause, resume, kill).                                *)
(*                                                                         *)
(* Every store statement and every container runtime call of the source   *)
(* is one atomic step; the statements of one handler interleave with the   *)
(* steps of every other task, as they do against Postgres and Docker.      *)
(***************************************************************************)
EXTENDS Integers, FiniteSets, Sequences, TLC

\* ---------------------------------------------------------------- bounds
\* Number of job_runs rows that can ever be inserted.
MaxRuns == 2
\* Number of worker processes polling the same job_queue.
NumWorkers == 2
\* Config.MaxConcurrent of each worker.
MaxConcurrent == 1
\* Number of times the server process may die and restart.
MaxCrashes == 1
\* Last reading of the clock, in ticks; the schedules below fire on ticks.
MaxTime == 2
\* Number of runs triggered while the clock is observed.
MaxClockRuns == 1

\* Number of runs triggered while requests of two callers are served.
MaxOwnerRuns == 1
\* Highest job_queue.priority of a row in a given queue table.
MaxPriority == 1

Runs == 1..MaxRuns
Workers == 1..NumWorkers
\* The worker process that also hosts the reaper, the scheduler and the API.
MainWorkers == {1}

\* run_status values; "none" is a row that does not exist yet.
Terminal == {"succeeded", "failed", "cancelled"}
NonTerminal == {"pending", "running", "paused"}

VARIABLES
    job,        \* the jobs row a request names: timeout_seconds, schedule,
                \* whether it exists, is active and belongs to the caller
    run,        \* job_runs rows, by run id
    queue,      \* job_queue rows, by the run id they reference
    qclock,     \* now() as the queue sees it: the number of job_queue rows inserted so far
    cont,       \* container runtime state of the container of each run
    wait,       \* the WaitContainer goroutine / waitCh of each run
    sup,        \* the executeRun goroutine of each run
    activeRuns, \* Worker.activeRuns, per worker
    poll,       \* the pollAndExecute transaction of each worker
    trig,       \* TriggerRun request in flight (run inserted, queue row not yet)
    sched,      \* the scheduler pass
    cmd,        \* the pause/resume/kill request in flight
    reap,       \* the reaper pass
    picks,      \* history: committed claims per queue row
    marks,      \* history: mark-running updates per run
    crashes,    \* history: process crashes so far
    resumed,    \* history: runs a resume request has completed on
    now,        \* the clock read by time.Now() and now()
    shut        \* main's graceful shutdown: Worker.Shutdown and the process exit

vars == <<job, run, queue, qclock, cont, wait, sup, activeRuns, poll, trig,
          sched, cmd, reap, picks, marks, crashes, resumed, now, shut>>

\* ------------------------------------------------------------- initial state
\* SQL NULL in a timestamp or duration column.
Null == 0 - 1
NoRun == [status |-> "none", err |-> "", cid |-> FALSE, hb |-> "null", paused_at |-> FALSE,
          exit_code |-> "null", created_at |-> Null, started_at |-> Null,
          finished_at |-> Null, duration_ms |-> Null]
NoQueue == [st |-> "none", lock |-> 0, sched |-> 0, prio |-> 0]
NoSup == [pc |-> "none", w |-> 0, res |-> "-", hb |-> FALSE, timedOut |-> FALSE, duration |-> 0]
NoPoll == [pc |-> "idle", q |-> 0]
NoCmd == [op |-> "none", r |-> 0, pc |-> "-", st |-> "-", at |-> Null]
NoReap == [pc |-> "idle", todo |-> {}, cids |-> {}, cur |-> 0]
NoSched == [pc |-> "idle", r |-> 0]

\* timeout_seconds of the job: 0 disables the timer, 60 stands for any value > 0.
TimeoutChoices == {0, 60}
\* jobs.schedule: NULL, a text cron.Parse rejects, and two five-field
\* expressions, firing on every tick and on every second tick.
NoSchedule == ""
EveryTick == "* * * * *"
EverySecondTick == "*/2 * * * *"
Schedules == {NoSchedule, "not a cron", EveryTick, EverySecondTick}

Init ==
    /\ job \in [timeout_seconds : TimeoutChoices, schedule : {EveryTick},
                exists : BOOLEAN, is_active : BOOLEAN, owned : BOOLEAN]
    /\ run = [r \in Runs |-> NoRun]
    /\ queue = [r \in Runs |-> NoQueue]
    /\ qclock = 0
    /\ cont = [r \in Runs |-> "none"]
    /\ wait = [r \in Runs |-> "unreg"]
    /\ sup = [r \in Runs |-> NoSup]
    /\ activeRuns = [w \in Workers |-> 0]
    /\ poll = [w \in Workers |-> NoPoll]
    /\ trig = 0
    /\ sched = NoSched
    /\ cmd = NoCmd
    /\ reap = NoReap
    /\ picks = [r \in Runs |-> 0]
    /\ marks = [r \in Runs |-> 0]
    /\ crashes = 0
    /\ resumed = {}
    /\ now = 0
    /\ shut = "up"

\* ------------------------------------------------------------------ store
\* INSERT INTO job_runs (job_id, user_id, status) VALUES (.., 'pending')
FreeRunIds == {r \in Runs : run[r].status = "none"}
NextRunId == CHOOSE r \in FreeRunIds : \A p \in FreeRunIds : r <= p
\* created_at takes its column default now().
InsertRun(r) == [run EXCEPT ![r] = [NoRun EXCEPT !.status = "pending", !.created_at = now]]

\* INSERT INTO job_queue (job_id, run_id): priority 0, scheduled_at now(), picked_at NULL
InsertQueue(r) == [queue EXCEPT ![r] = [st |-> "unclaimed", lock |-> 0, sched |-> qclock + 1, prio |-> 0]]

\* DELETE FROM job_queue WHERE id = $1 / WHERE run_id = $1
DeleteQueue(r) == [queue EXCEPT ![r] = NoQueue]

\* failRun: UPDATE job_runs SET status = 'failed', error_message, finished_at,
\* duration_ms, heartbeat_at = NULL WHERE id = $4
\* startedAt is the value written to started_at by the same goroutine.
failRunKeepsStatus(r, msg) ==
    [run EXCEPT ![r].err = msg, ![r].hb = "null",
                ![r].finished_at = now, ![r].duration_ms = now - run[r].started_at]
failRun(r, msg) ==
    [run EXCEPT ![r].status = "failed", ![r].err = msg, ![r].hb = "null",
                ![r].finished_at = now, ![r].duration_ms = now - run[r].started_at]

\* -------------------------------------------------------- container runtime
WaitResults == {"res0", "resN", "err"}

\* An exit event reaches the WaitContainer call only if it is registered.
Deliver(r, result) == IF wait[r] = "registered" THEN result ELSE wait[r]

\* StopContainer: a running or paused container exits with a signal exit code.
StoppedUnlessPaused(r) == IF cont[r] = "running" THEN "exited" ELSE cont[r]
Stopped(r) == IF cont[r] \in {"running", "paused"} THEN "exited" ELSE cont[r]
StopDelivers(r) == IF cont[r] \in {"running", "paused"} THEN Deliver(r, "resN") ELSE wait[r]

\* RemoveContainer (Force: true).
RemovedNothing(r) == cont[r]
Removed(r) == IF cont[r] = "none" THEN "none" ELSE "removed"
RemoveDelivers(r) ==
    IF cont[r] \in {"running", "paused", "created", "exited"} THEN Deliver(r, "resN") ELSE wait[r]

\* ------------------------------------------------------------ TriggerRun
\* SELECT ... FROM jobs WHERE id = $1 AND user_id = $2 AND is_active = true
JobFoundIgnoringActive == job.exists /\ job.owned
JobFound == job.exists /\ job.owned /\ job.is_active

\* http.StatusNotFound, the response of a TriggerRun that found no job.
StatusNotFound == 404

\* TriggerRun: the job is not found; 404 is answered.
TriggerNotFound ==
    /\ trig = 0
    /\ ~JobFound
    /\ trig' = StatusNotFound
    /\ UNCHANGED <<job, run, queue, qclock, cont, wait, sup, activeRuns, poll, sched, cmd, reap, picks, marks, crashes, resumed, now, shut>>

\* The 404 response is written and the handler returns.
TriggerReturn ==
    /\ trig = StatusNotFound
    /\ trig' = 0
    /\ UNCHANGED <<job, run, queue, qclock, cont, wait, sup, activeRuns, poll, sched, cmd, reap, picks, marks, crashes, resumed, now, shut>>

\* TriggerRun, first statement: the job is found (active, owned) and the
\* job_runs row is inserted.
TriggerInsertRun ==
    /\ trig = 0
    /\ JobFound
    /\ FreeRunIds # {}
    /\ run' = InsertRun(NextRunId)
    /\ trig' = NextRunId
    /\ UNCHANGED <<job, queue, qclock, cont, wait, sup, activeRuns, poll, sched, cmd, reap, picks, marks, crashes, resumed, now, shut>>

\* TriggerRun, second statement: the job_queue row is inserted, 202 returned.
TriggerInsertQueue ==
    /\ trig \in Runs
    /\ queue' = InsertQueue(trig)
    /\ qclock' = qclock + 1
    /\ trig' = 0
    /\ UNCHANGED <<job, run, cont, wait, sup, activeRuns, poll, sched, cmd, reap, picks, marks, crashes, resumed, now, shut>>

\* The job_queue insert fails: 500 is returned, the job_runs row stays.
TriggerInsertQueueFails ==
    /\ trig \in Runs
    /\ trig' = 0
    /\ UNCHANGED <<job, run, queue, qclock, cont, wait, sup, activeRuns, poll, sched, cmd, reap, picks, marks, crashes, resumed, now, shut>>

\* ------------------------------------------------------- Worker.Run / poll
\* Worker.Run: the ticker branch calls pollAndExecute only below the limit.
CanPollOffByOne(w) == activeRuns[w] <= MaxConcurrent
CanPoll(w) == activeRuns[w] < MaxConcurrent

\* WHERE q.picked_at IS NULL AND q.scheduled_at <= now() ... FOR UPDATE OF q SKIP LOCKED
\* qclock is the reading of now() in the order of the scheduled_at values.
ClaimableRowsNoLock(w) == {q \in Runs : queue[q].st = "unclaimed" /\ queue[q].sched <= qclock}
ClaimableRows(w) ==
    {q \in Runs : queue[q].st = "unclaimed" /\ queue[q].sched <= qclock /\ queue[q].lock = 0}

\* ORDER BY q.priority DESC, q.scheduled_at ASC LIMIT 1
FirstRowIgnoringPriority(S) == CHOOSE q \in S : \A p \in S : queue[q].sched <= queue[p].sched
FirstRow(S) ==
    CHOOSE q \in S :
        \A p \in S : \/ queue[q].prio > queue[p].prio
                     \/ queue[q].prio = queue[p].prio /\ queue[q].sched <= queue[p].sched

\* pollAndExecute: Begin and the SELECT; the chosen row is locked by the
\* transaction. With no row the transaction rolls back and nothing changes.
PollSelect(w) ==
    /\ poll[w].pc = "idle"
    /\ CanPoll(w)
    /\ ClaimableRows(w) # {}
    /\ LET q == FirstRow(ClaimableRows(w)) IN
         /\ poll' = [poll EXCEPT ![w] = [pc |-> "tx", q |-> q]]
         /\ queue' = [queue EXCEPT ![q].lock = w]
    /\ UNCHANGED <<job, run, qclock, cont, wait, sup, activeRuns, trig, sched, cmd, reap, picks, marks, crashes, resumed, now, shut>>

\* pollAndExecute: UPDATE job_queue SET picked_at = now(), Commit, then
\* activeRuns.Add(1) and the executeRun goroutine is started.
PollCommit(w) ==
    /\ poll[w].pc = "tx"
    /\ LET q == poll[w].q IN
         /\ queue' = [queue EXCEPT ![q].st = "picked", ![q].lock = 0]
         /\ picks' = [picks EXCEPT ![q] = @ + 1]
         /\ sup' = [sup EXCEPT ![q] = [NoSup EXCEPT !.pc = "mark", !.w = w, !.hb = sup[q].hb]]
    /\ activeRuns' = [activeRuns EXCEPT ![w] = @ + 1]
    /\ poll' = [poll EXCEPT ![w] = NoPoll]
    /\ UNCHANGED <<job, run, qclock, cont, wait, trig, sched, cmd, reap, marks, crashes, resumed, now, shut>>

\* ---------------------------------------------------------- executeRun
\* The goroutine returns: the deferred activeRuns.Add(-1) runs.
SupReturn(r) == [sup EXCEPT ![r] = [NoSup EXCEPT !.w = sup[r].w]]
DecrementNever(r) == activeRuns
Decrement(r) == [activeRuns EXCEPT ![sup[r].w] = @ - 1]

\* UPDATE job_runs SET status = 'running', started_at = $1, heartbeat_at = $1 WHERE id = $2
MarkRunningStoresContainer(r) ==
    [run EXCEPT ![r].status = "running", ![r].hb = "fresh", ![r].started_at = now, ![r].cid = TRUE]
MarkRunning(r) == [run EXCEPT ![r].status = "running", ![r].hb = "fresh", ![r].started_at = now]

SupMarkRunning(r) ==
    /\ sup[r].pc = "mark"
    /\ run' = MarkRunning(r)
    /\ marks' = [marks EXCEPT ![r] = @ + 1]
    /\ sup' = [sup EXCEPT ![r].pc = "pull"]
    /\ UNCHANGED <<job, queue, qclock, cont, wait, activeRuns, poll, trig, sched, cmd, reap, picks, crashes, resumed, now, shut>>

\* The mark-running update returns an error: it is logged and the goroutine
\* returns; the run row and the picked queue row stay as they are.
SupMarkRunningFails(r) ==
    /\ sup[r].pc = "mark"
    /\ sup' = SupReturn(r)
    /\ activeRuns' = Decrement(r)
    /\ UNCHANGED <<job, run, queue, qclock, cont, wait, poll, trig, sched, cmd, reap, picks, marks, crashes, resumed, now, shut>>

\* PullImage succeeds, or fails and failRun is written.
SupPullImage(r) ==
    /\ sup[r].pc = "pull"
    /\ \/ /\ sup' = [sup EXCEPT ![r].pc = "create"]
          /\ UNCHANGED run
       \/ /\ run' = failRun(r, "image pull failed")
          /\ sup' = [sup EXCEPT ![r].pc = "fcleanup"]
    /\ UNCHANGED <<job, queue, qclock, cont, wait, activeRuns, poll, trig, sched, cmd, reap, picks, marks, crashes, resumed, now, shut>>

\* CreateContainer succeeds, or fails and failRun is written.
SupCreateContainer(r) ==
    /\ sup[r].pc = "create"
    /\ \/ /\ cont' = [cont EXCEPT ![r] = "created"]
          /\ sup' = [sup EXCEPT ![r].pc = "storecid"]
          /\ UNCHANGED run
       \/ /\ run' = failRun(r, "container create failed")
          /\ sup' = [sup EXCEPT ![r].pc = "fcleanup"]
          /\ UNCHANGED cont
    /\ UNCHANGED <<job, queue, qclock, wait, activeRuns, poll, trig, sched, cmd, reap, picks, marks, crashes, resumed, now, shut>>

\* UPDATE job_runs SET container_id = $1 WHERE id = $2, then the goroutine
\* that will call WaitContainer is started.
SupStoreContainerID(r) ==
    /\ sup[r].pc = "storecid"
    /\ run' = [run EXCEPT ![r].cid = TRUE]
    /\ wait' = [wait EXCEPT ![r] = "spawned"]
    /\ sup' = [sup EXCEPT ![r].pc = "start"]
    /\ UNCHANGED <<job, queue, qclock, cont, activeRuns, poll, trig, sched, cmd, reap, picks, marks, crashes, resumed, now, shut>>

\* The wait goroutine reaches ContainerWait (WaitConditionNextExit): it is
\* registered for the next exit, or fails when the container does not exist.
WaitRegister(r) ==
    /\ wait[r] = "spawned"
    /\ wait' = [wait EXCEPT ![r] = IF cont[r] \in {"none", "removed"} THEN "err" ELSE "registered"]
    /\ UNCHANGED <<job, run, queue, qclock, cont, sup, activeRuns, poll, trig, sched, cmd, reap, picks, marks, crashes, resumed, now, shut>>

\* ContainerWait reports an error on its Error channel (the daemon drops the
\* request): WaitContainer returns -1 and the error.
WaitFails(r) ==
    /\ wait[r] \in {"spawned", "registered"}
    /\ wait' = [wait EXCEPT ![r] = "err"]
    /\ UNCHANGED <<job, run, queue, qclock, cont, sup, activeRuns, poll, trig, sched, cmd, reap, picks, marks, crashes, resumed, now, shut>>

\* StartContainer succeeds and emitHeartbeat is started, or it fails and
\* failRun is written.
SupStartContainer(r) ==
    /\ sup[r].pc = "start"
    /\ \/ /\ cont[r] = "created"
          /\ cont' = [cont EXCEPT ![r] = "running"]
          /\ sup' = [sup EXCEPT ![r].pc = "wait", ![r].hb = TRUE]
          /\ UNCHANGED run
       \/ /\ run' = failRun(r, "container start failed")
          /\ sup' = [sup EXCEPT ![r].pc = "fremove"]
          /\ UNCHANGED cont
    /\ UNCHANGED <<job, queue, qclock, wait, activeRuns, poll, trig, sched, cmd, reap, picks, marks, crashes, resumed, now, shut>>

\* The container's process exits by itself with code 0 or another code.
ContainerExits(r) ==
    /\ cont[r] = "running"
    /\ cont' = [cont EXCEPT ![r] = "exited"]
    /\ \E res \in {"res0", "resN"} : wait' = [wait EXCEPT ![r] = Deliver(r, res)]
    /\ UNCHANGED <<job, run, queue, qclock, sup, activeRuns, poll, trig, sched, cmd, reap, picks, marks, crashes, resumed, now, shut>>

\* The waitResult sent on waitCh: WaitContainer returns the status code, or
\* -1 with an error.
ExitCode(w) == IF w = "res0" THEN "0" ELSE IF w = "resN" THEN "N" ELSE "-1"
WaitError(w) == w = "err"

\* The timer is armed only when TimeoutSeconds > 0.
TimerArmedAlways == TRUE
TimerArmed == job.timeout_seconds > 0

\* select: waitCh delivers first; heartbeatCancel(); duration := time.Since(startedAt).
SupWaitDone(r) ==
    /\ sup[r].pc = "wait"
    /\ wait[r] \in WaitResults
    /\ sup' = [sup EXCEPT ![r].pc = "final", ![r].res = wait[r], ![r].hb = FALSE,
                          ![r].duration = now - run[r].started_at]
    /\ wait' = [wait EXCEPT ![r] = "unreg"]
    /\ UNCHANGED <<job, run, queue, qclock, cont, activeRuns, poll, trig, sched, cmd, reap, picks, marks, crashes, resumed, now, shut>>

\* select: timer.C fires first; timedOut = true; StopContainer(5).
SupTimeout(r) ==
    /\ sup[r].pc = "wait"
    /\ TimerArmed
    /\ cont' = [cont EXCEPT ![r] = Stopped(r)]
    /\ wait' = [wait EXCEPT ![r] = StopDelivers(r)]
    /\ sup' = [sup EXCEPT ![r].pc = "drain", ![r].timedOut = TRUE]
    /\ UNCHANGED <<job, run, queue, qclock, activeRuns, poll, trig, sched, cmd, reap, picks, marks, crashes, resumed, now, shut>>

\* wr := <-waitCh after the stop; heartbeatCancel(); duration := time.Since(startedAt).
SupDrain(r) ==
    /\ sup[r].pc = "drain"
    /\ wait[r] \in WaitResults
    /\ sup' = [sup EXCEPT ![r].pc = "final", ![r].res = wait[r], ![r].hb = FALSE,
                          ![r].duration = now - run[r].started_at]
    /\ wait' = [wait EXCEPT ![r] = "unreg"]
    /\ UNCHANGED <<job, run, queue, qclock, cont, activeRuns, poll, trig, sched, cmd, reap, picks, marks, crashes, resumed, now, shut>>

\* The four terminal UPDATE statements of executeRun, chosen by timedOut,
\* result.err and exitCode in this order; each ends WHERE id = $n. The
\* succeeded statement does not assign error_message.
FinalStatusExitCodeFirst(t, w) ==
    IF ExitCode(w) = "0" THEN "succeeded" ELSE "failed"
FinalStatus(t, w) ==
    IF t THEN "failed" ELSE IF WaitError(w) THEN "failed" ELSE IF ExitCode(w) = "0" THEN "succeeded" ELSE "failed"
FinalError(r, t, w) ==
    IF t THEN "timeout exceeded"
    ELSE IF WaitError(w) THEN "wait error"
    ELSE IF ExitCode(w) = "0" THEN run[r].err ELSE "exit code"
FinalWrite(r, t, w, d) ==
    [run EXCEPT ![r].status = FinalStatus(t, w), ![r].err = FinalError(r, t, w),
                ![r].exit_code = ExitCode(w), ![r].finished_at = now,
                ![r].duration_ms = d, ![r].hb = "null"]

\* GetLogs, then the terminal UPDATE with finished_at = time.Now().
SupFinalWrite(r) ==
    /\ sup[r].pc = "final"
    /\ run' = FinalWrite(r, sup[r].timedOut, sup[r].res, sup[r].duration)
    /\ sup' = [sup EXCEPT ![r].pc = "cleanup"]
    /\ UNCHANGED <<job, queue, qclock, cont, wait, activeRuns, poll, trig, sched, cmd, reap, picks, marks, crashes, resumed, now, shut>>

\* cleanupQueue on the normal path.
SupCleanupQueue(r) ==
    /\ sup[r].pc = "cleanup"
    /\ queue' = DeleteQueue(r)
    /\ sup' = [sup EXCEPT ![r].pc = "remove"]
    /\ UNCHANGED <<job, run, qclock, cont, wait, activeRuns, poll, trig, sched, cmd, reap, picks, marks, crashes, resumed, now, shut>>

\* RemoveContainer on the normal path, then the goroutine returns.
SupRemoveContainer(r) ==
    /\ sup[r].pc = "remove"
    /\ cont' = [cont EXCEPT ![r] = Removed(r)]
    /\ wait' = [wait EXCEPT ![r] = RemoveDelivers(r)]
    /\ sup' = SupReturn(r)
    /\ activeRuns' = Decrement(r)
    /\ UNCHANGED <<job, run, queue, qclock, poll, trig, sched, cmd, reap, picks, marks, crashes, resumed, now, shut>>

\* Start failure path: RemoveContainer after failRun.
SupFailRemove(r) ==
    /\ sup[r].pc = "fremove"
    /\ cont' = [cont EXCEPT ![r] = Removed(r)]
    /\ wait' = [wait EXCEPT ![r] = RemoveDelivers(r)]
    /\ sup' = [sup EXCEPT ![r].pc = "fcleanup"]
    /\ UNCHANGED <<job, run, queue, qclock, activeRuns, poll, trig, sched, cmd, reap, picks, marks, crashes, resumed, now, shut>>

\* Pre-exec failure paths: cleanupQueue, then return.
SupFailCleanup(r) ==
    /\ sup[r].pc = "fcleanup"
    /\ queue' = DeleteQueue(r)
    /\ sup' = SupReturn(r)
    /\ activeRuns' = Decrement(r)
    /\ UNCHANGED <<job, run, qclock, cont, wait, poll, trig, sched, cmd, reap, picks, marks, crashes, resumed, now, shut>>

\* A panic inside executeRun after the mark-running update: the deferred
\* recover calls failRun and the goroutine returns; nothing else runs.
SupPanic(r) ==
    /\ sup[r].pc \in {"pull", "create", "storecid", "start", "wait", "drain", "final", "cleanup", "remove"}
    /\ run' = failRun(r, "panic")
    /\ sup' = [sup EXCEPT ![r] = [NoSup EXCEPT !.w = sup[r].w, !.hb = sup[r].hb]]
    /\ activeRuns' = Decrement(r)
    /\ UNCHANGED <<job, queue, qclock, cont, wait, poll, trig, sched, cmd, reap, picks, marks, crashes, resumed, now, shut>>

\* ------------------------------------------------------- emitHeartbeat
\* UPDATE job_runs SET heartbeat_at = now()
\* WHERE id = $1 AND status IN ('running', 'paused')
HeartbeatUpdateUnguarded(r) == [run EXCEPT ![r].hb = "fresh"]
HeartbeatUpdate(r) ==
    IF run[r].status \in {"running", "paused"} THEN [run EXCEPT ![r].hb = "fresh"] ELSE run

emitHeartbeat(r) ==
    /\ sup[r].hb
    /\ run' = HeartbeatUpdate(r)
    /\ UNCHANGED <<job, queue, qclock, cont, wait, sup, activeRuns, poll, trig, sched, cmd, reap, picks, marks, crashes, resumed, now, shut>>

\* staleThreshold (60s) passes without a heartbeat: only possible while no
\* emitter is ticking for the run (heartbeatInterval is 10s).
HeartbeatExpires(r) ==
    /\ run[r].hb = "fresh"
    /\ run[r].status \in {"running", "paused"}
    /\ ~sup[r].hb
    /\ run' = [run EXCEPT ![r].hb = "stale"]
    /\ UNCHANGED <<job, queue, qclock, cont, wait, sup, activeRuns, poll, trig, sched, cmd, reap, picks, marks, crashes, resumed, now, shut>>

\* ------------------------------------------------------- reapStaleRuns
\* SELECT id, container_id FROM job_runs WHERE status IN ('running','paused')
\*   AND heartbeat_at IS NOT NULL AND heartbeat_at < now() - staleThreshold
StaleRunsAnyHeartbeat == {r \in Runs : run[r].status \in {"running", "paused"} /\ run[r].hb # "null"}
StaleRuns == {r \in Runs : run[r].status \in {"running", "paused"} /\ run[r].hb = "stale"}

ReapStep(r, cids) == IF r \in cids THEN "docker" ELSE "upd"

\* UPDATE job_runs SET status = 'failed', error_message = 'heartbeat timeout: ...',
\* finished_at = now(), heartbeat_at = NULL WHERE id = $1
ReapFail(r) ==
    [run EXCEPT ![r].status = "failed", ![r].err = "heartbeat timeout",
                ![r].finished_at = now, ![r].hb = "null"]

ReapQuery ==
    /\ reap.pc = "idle"
    /\ StaleRuns # {}
    /\ LET cids == {x \in StaleRuns : run[x].cid} IN
         \E r \in StaleRuns :
            reap' = [pc |-> ReapStep(r, cids), todo |-> StaleRuns \ {r}, cids |-> cids, cur |-> r]
    /\ UNCHANGED <<job, run, queue, qclock, cont, wait, sup, activeRuns, poll, trig, sched, cmd, picks, marks, crashes, resumed, now, shut>>

\* StopContainer(10) and RemoveContainer of the stale run's container.
ReapDocker ==
    /\ reap.pc = "docker"
    /\ cont' = [cont EXCEPT ![reap.cur] = Removed(reap.cur)]
    /\ wait' = [wait EXCEPT ![reap.cur] = RemoveDelivers(reap.cur)]
    /\ reap' = [reap EXCEPT !.pc = "upd"]
    /\ UNCHANGED <<job, run, queue, qclock, sup, activeRuns, poll, trig, sched, cmd, picks, marks, crashes, resumed, now, shut>>

ReapUpdate ==
    /\ reap.pc = "upd"
    /\ run' = ReapFail(reap.cur)
    /\ reap' = [reap EXCEPT !.pc = "del"]
    /\ UNCHANGED <<job, queue, qclock, cont, wait, sup, activeRuns, poll, trig, sched, cmd, picks, marks, crashes, resumed, now, shut>>

\* DELETE FROM job_queue WHERE run_id = $1, then the next stale run.
ReapDelete ==
    /\ reap.pc = "del"
    /\ queue' = DeleteQueue(reap.cur)
    /\ IF reap.todo = {}
         THEN reap' = NoReap
         ELSE \E r \in reap.todo :
                reap' = [reap EXCEPT !.pc = ReapStep(r, reap.cids), !.todo = reap.todo \ {r}, !.cur = r]
    /\ UNCHANGED <<job, run, qclock, cont, wait, sup, activeRuns, poll, trig, sched, cmd, picks, marks, crashes, resumed, now, shut>>

\* ------------------------------------------------------------ scheduler
\* parser.Parse(schedule) with the five fields Minute Hour Dom Month Dow.
CronPeriod == (EveryTick :> 1) @@ (EverySecondTick :> 2)
CronParses(s) == s \in DOMAIN CronPeriod
\* sched.Next(t): the first firing time strictly after t.
CronNext(s, t) == t + CronPeriod[s] - (t % CronPeriod[s])

\* checkScheduledJobs: the job has a schedule and is active; shouldEnqueue
\* returns false at once when the expression does not parse.
SchedTick ==
    /\ sched.pc = "idle"
    /\ job.exists /\ job.is_active /\ job.schedule # NoSchedule
    /\ sched' = [sched EXCEPT !.pc = IF CronParses(job.schedule) THEN "count" ELSE "idle"]
    /\ UNCHANGED <<job, run, queue, qclock, cont, wait, sup, activeRuns, poll, trig, cmd, reap, picks, marks, crashes, resumed, now, shut>>

\* SELECT COUNT(*) FROM job_runs WHERE job_id = $1 AND status IN ('pending','running','paused')
ActiveCount == Cardinality({r \in Runs : run[r].status \in NonTerminal})

\* shouldEnqueue: activeCount > 0 returns false.
SchedCount ==
    /\ sched.pc = "count"
    /\ sched' = [sched EXCEPT !.pc = IF ActiveCount > 0 THEN "idle" ELSE "last"]
    /\ UNCHANGED <<job, run, queue, qclock, cont, wait, sup, activeRuns, poll, trig, cmd, reap, picks, marks, crashes, resumed, now, shut>>

\* SELECT created_at FROM job_runs WHERE job_id = $1 ORDER BY created_at ASC LIMIT 1
FirstRunAt == CHOOSE t \in {run[r].created_at : r \in Runs \ FreeRunIds} :
                  \A r \in Runs \ FreeRunIds : t <= run[r].created_at
\* SELECT created_at FROM job_runs WHERE job_id = $1 ORDER BY created_at DESC LIMIT 1
LastRunAt == CHOOSE t \in {run[r].created_at : r \in Runs \ FreeRunIds} :
                 \A r \in Runs \ FreeRunIds : t >= run[r].created_at

\* shouldEnqueue: no prior run enqueues at once; otherwise the run is due
\* when now is at or after sched.Next(lastRunAt).
SchedLast ==
    /\ sched.pc = "last"
    /\ IF FreeRunIds = Runs
         THEN sched' = [sched EXCEPT !.pc = "insrun"]
         ELSE sched' = [sched EXCEPT !.pc = IF now >= CronNext(job.schedule, LastRunAt)
                                               THEN "insrun" ELSE "idle"]
    /\ UNCHANGED <<job, run, queue, qclock, cont, wait, sup, activeRuns, poll, trig, cmd, reap, picks, marks, crashes, resumed, now, shut>>

\* enqueueScheduledRun, first statement (an insert error returns).
SchedInsertRun ==
    /\ sched.pc = "insrun"
    /\ IF FreeRunIds # {}
         THEN /\ run' = InsertRun(NextRunId)
              /\ sched' = [pc |-> "insq", r |-> NextRunId]
         ELSE /\ sched' = NoSched
              /\ UNCHANGED run
    /\ UNCHANGED <<job, queue, qclock, cont, wait, sup, activeRuns, poll, trig, cmd, reap, picks, marks, crashes, resumed, now, shut>>

\* enqueueScheduledRun, second statement.
SchedInsertQueue ==
    /\ sched.pc = "insq"
    /\ queue' = InsertQueue(sched.r)
    /\ qclock' = qclock + 1
    /\ sched' = NoSched
    /\ UNCHANGED <<job, run, cont, wait, sup, activeRuns, poll, trig, cmd, reap, picks, marks, crashes, resumed, now, shut>>

\* ------------------------------------------------- PauseRun / ResumeRun / KillRun
\* The preconditions checked on the (container_id, status) read.
PauseAllowedAnyStatus(r) == run[r].cid
PauseAllowed(r) == run[r].status = "running" /\ run[r].cid
ResumeAllowed(r) == run[r].status = "paused" /\ run[r].cid
KillAllowed(r) == run[r].status \in {"running", "paused"}

Exists(r) == run[r].status # "none"

\* PauseRun: the read and the precondition checks; 409 on a violation.
PauseRead(r) ==
    /\ cmd.op = "none"
    /\ Exists(r)
    /\ cmd' = [NoCmd EXCEPT !.op = "pause", !.r = r, !.pc = IF PauseAllowed(r) THEN "docker" ELSE "409"]
    /\ UNCHANGED <<job, run, queue, qclock, cont, wait, sup, activeRuns, poll, trig, sched, reap, picks, marks, crashes, resumed, now, shut>>

\* PauseContainer: freezes a running container, fails otherwise (500).
PauseDockerIgnoresError ==
    /\ cmd.op = "pause" /\ cmd.pc = "docker"
    /\ cont' = [cont EXCEPT ![cmd.r] = IF @ = "running" THEN "paused" ELSE @]
    /\ cmd' = [cmd EXCEPT !.pc = "upd"]
    /\ UNCHANGED <<job, run, queue, qclock, wait, sup, activeRuns, poll, trig, sched, reap, picks, marks, crashes, resumed, now, shut>>
PauseDocker ==
    /\ cmd.op = "pause" /\ cmd.pc = "docker"
    /\ IF cont[cmd.r] = "running"
         THEN /\ cont' = [cont EXCEPT ![cmd.r] = "paused"]
              /\ cmd' = [cmd EXCEPT !.pc = "upd"]
         ELSE /\ cmd' = [cmd EXCEPT !.pc = "500"]
              /\ UNCHANGED cont
    /\ UNCHANGED <<job, run, queue, qclock, wait, sup, activeRuns, poll, trig, sched, reap, picks, marks, crashes, resumed, now, shut>>

\* UPDATE job_runs SET status = 'paused', paused_at = $1 WHERE id = $2; 200.
PauseWrite(r) == [run EXCEPT ![r].status = "paused", ![r].paused_at = TRUE]

PauseUpdate ==
    /\ cmd.op = "pause" /\ cmd.pc = "upd"
    /\ run' = PauseWrite(cmd.r)
    /\ cmd' = NoCmd
    /\ UNCHANGED <<job, queue, qclock, cont, wait, sup, activeRuns, poll, trig, sched, reap, picks, marks, crashes, resumed, now, shut>>

\* ResumeRun: the read and the precondition checks; 409 on a violation.
ResumeRead(r) ==
    /\ cmd.op = "none"
    /\ Exists(r)
    /\ cmd' = [NoCmd EXCEPT !.op = "resume", !.r = r, !.pc = IF ResumeAllowed(r) THEN "docker" ELSE "409"]
    /\ UNCHANGED <<job, run, queue, qclock, cont, wait, sup, activeRuns, poll, trig, sched, reap, picks, marks, crashes, resumed, now, shut>>

\* UnpauseContainer: thaws a paused container, fails otherwise (500).
ResumeDocker ==
    /\ cmd.op = "resume" /\ cmd.pc = "docker"
    /\ IF cont[cmd.r] = "paused"
         THEN /\ cont' = [cont EXCEPT ![cmd.r] = "running"]
              /\ cmd' = [cmd EXCEPT !.pc = "upd"]
         ELSE /\ cmd' = [cmd EXCEPT !.pc = "500"]
              /\ UNCHANGED cont
    /\ UNCHANGED <<job, run, queue, qclock, wait, sup, activeRuns, poll, trig, sched, reap, picks, marks, crashes, resumed, now, shut>>

\* UPDATE job_runs SET status = 'running', paused_at = NULL WHERE id = $1; 200.
ResumeWriteKeepsPausedAt(r) == [run EXCEPT ![r].status = "running"]
ResumeWrite(r) == [run EXCEPT ![r].status = "running", ![r].paused_at = FALSE]

ResumeUpdate ==
    /\ cmd.op = "resume" /\ cmd.pc = "upd"
    /\ run' = ResumeWrite(cmd.r)
    /\ cmd' = NoCmd
    /\ resumed' = resumed \cup {cmd.r}
    /\ UNCHANGED <<job, queue, qclock, cont, wait, sup, activeRuns, poll, trig, sched, reap, picks, marks, crashes, now, shut>>

\* KillRun: the read and the precondition check; 409 on a violation. The
\* container calls are skipped when container_id is null.
KillRead(r) ==
    /\ cmd.op = "none"
    /\ Exists(r)
    /\ cmd' = [op |-> "kill", r |-> r,
               pc |-> IF ~KillAllowed(r) THEN "409" ELSE IF run[r].cid THEN "docker" ELSE "upd",
               st |-> IF KillAllowed(r) THEN run[r].status ELSE "-",
               at |-> IF KillAllowed(r) THEN run[r].started_at ELSE Null]
    /\ UNCHANGED <<job, run, queue, qclock, cont, wait, sup, activeRuns, poll, trig, sched, reap, picks, marks, crashes, resumed, now, shut>>

\* UnpauseContainer if the run was read as paused, StopContainer(10), RemoveContainer.
KillDocker ==
    /\ cmd.op = "kill" /\ cmd.pc = "docker"
    /\ cont' = [cont EXCEPT ![cmd.r] = Removed(cmd.r)]
    /\ wait' = [wait EXCEPT ![cmd.r] = RemoveDelivers(cmd.r)]
    /\ cmd' = [cmd EXCEPT !.pc = "upd"]
    /\ UNCHANGED <<job, run, queue, qclock, sup, activeRuns, poll, trig, sched, reap, picks, marks, crashes, resumed, now, shut>>

\* UPDATE job_runs SET status = 'cancelled', finished_at, duration_ms,
\* error_message = 'Killed by user' WHERE id = $3
\* durationMs is now - started_at as read by the handler, 0 when it was NULL.
KillWrite(r) ==
    [run EXCEPT ![r].status = "cancelled", ![r].err = "Killed by user",
                ![r].finished_at = now,
                ![r].duration_ms = IF cmd.at = Null THEN 0 ELSE now - cmd.at]

KillUpdate ==
    /\ cmd.op = "kill" /\ cmd.pc = "upd"
    /\ run' = KillWrite(cmd.r)
    /\ cmd' = [cmd EXCEPT !.pc = "del"]
    /\ UNCHANGED <<job, queue, qclock, cont, wait, sup, activeRuns, poll, trig, sched, reap, picks, marks, crashes, resumed, now, shut>>

\* DELETE FROM job_queue WHERE run_id = $1; 200.
KillDelete ==
    /\ cmd.op = "kill" /\ cmd.pc = "del"
    /\ queue' = DeleteQueue(cmd.r)
    /\ cmd' = NoCmd
    /\ UNCHANGED <<job, run, qclock, cont, wait, sup, activeRuns, poll, trig, sched, reap, picks, marks, crashes, resumed, now, shut>>

\* The 409 or 500 response is written and the handler returns.
CmdReturn ==
    /\ cmd.pc \in {"409", "500"}
    /\ cmd' = NoCmd
    /\ UNCHANGED <<job, run, queue, qclock, cont, wait, sup, activeRuns, poll, trig, sched, reap, picks, marks, crashes, resumed, now, shut>>

\* ----------------------------------------------------------------- clock
\* Time passes.
Tick ==
    /\ now < MaxTime
    /\ now' = now + 1
    /\ UNCHANGED <<job, run, queue, qclock, cont, wait, sup, activeRuns, poll, trig, sched, cmd, reap, picks, marks, crashes, resumed, shut>>

\* ----------------------------------------------------------------- crash
\* The server process dies and is started again: every goroutine, open
\* transaction and request of the process is gone; the store and the
\* containers stay as they are.
WorkerCrash ==
    /\ crashes < MaxCrashes
    /\ crashes' = crashes + 1
    /\ sup' = [r \in Runs |-> NoSup]
    /\ wait' = [r \in Runs |-> "unreg"]
    /\ activeRuns' = [w \in Workers |-> 0]
    /\ poll' = [w \in Workers |-> NoPoll]
    /\ queue' = [r \in Runs |-> [queue[r] EXCEPT !.lock = 0]]
    /\ trig' = 0
    /\ sched' = NoSched
    /\ cmd' = NoCmd
    /\ reap' = NoReap
    /\ UNCHANGED <<job, run, qclock, cont, picks, marks, resumed, now, shut>>

\* ------------------------------------------- requests of either caller
\* The authenticated users that send run requests.
Callers == {"owner", "other"}

\* job_runs.user_id: TriggerRun and enqueueScheduledRun insert the run with
\* the user_id of the job, and TriggerRun finds only the caller's own jobs.
UserOf(r) == "owner"

\* SELECT ... FROM job_runs WHERE id = $1 AND user_id = $2
RunFoundAnyCaller(r, u) == Exists(r)
RunFound(r, u) == Exists(r) /\ UserOf(r) = u

\* GetRun and GetRunLogs on a row that was found: the row (and, for a live
\* container, GetLogs) is read and 200 is answered.
ReadOnly(op, r) ==
    /\ cmd.op = "none"
    /\ Exists(r)
    /\ cmd' = [NoCmd EXCEPT !.op = op, !.r = r, !.pc = "200"]
    /\ UNCHANGED <<job, run, queue, qclock, cont, wait, sup, activeRuns, poll, trig, sched, reap, picks, marks, crashes, resumed, now, shut>>

\* The row lookup of any of the five handlers returns no row: 404.
RequestNotFound(op, r) ==
    /\ cmd.op = "none"
    /\ cmd' = [NoCmd EXCEPT !.op = op, !.r = r, !.pc = "404"]
    /\ UNCHANGED <<job, run, queue, qclock, cont, wait, sup, activeRuns, poll, trig, sched, reap, picks, marks, crashes, resumed, now, shut>>

RunOps == {"get", "pause", "resume", "kill", "logs"}

\* A request of caller u for run id r arrives at its handler.
RunRequest(u, op, r) ==
    IF RunFound(r, u)
      THEN CASE op = "pause" -> PauseRead(r)
             [] op = "resume" -> ResumeRead(r)
             [] op = "kill" -> KillRead(r)
             [] OTHER -> ReadOnly(op, r)
      ELSE RequestNotFound(op, r)

\* The 200 or 404 response of a request that changed nothing is written.
ReadReturn ==
    /\ cmd.pc \in {"200", "404"}
    /\ cmd' = NoCmd
    /\ UNCHANGED <<job, run, queue, qclock, cont, wait, sup, activeRuns, poll, trig, sched, reap, picks, marks, crashes, resumed, now, shut>>

\* --------------------------------------------------- graceful shutdown
\* pollAndExecute as Shutdown sees it: the claim transaction commits, and the
\* poll loop calls activeRuns.Add(1), wg.Add(1) and starts the executeRun
\* goroutine in a later step.
PollCommitTx(w) ==
    /\ poll[w].pc = "tx"
    /\ shut = "up"
    /\ LET q == poll[w].q IN
         /\ queue' = [queue EXCEPT ![q].st = "picked", ![q].lock = 0]
         /\ picks' = [picks EXCEPT ![q] = @ + 1]
    /\ poll' = [poll EXCEPT ![w].pc = "spawn"]
    /\ UNCHANGED <<job, run, qclock, cont, wait, sup, activeRuns, trig, sched, cmd, reap, marks, crashes, resumed, now, shut>>

PollSpawn(w) ==
    /\ poll[w].pc = "spawn"
    /\ sup' = [sup EXCEPT ![poll[w].q] = [NoSup EXCEPT !.pc = "mark", !.w = w]]
    /\ activeRuns' = [activeRuns EXCEPT ![w] = @ + 1]
    /\ poll' = [poll EXCEPT ![w] = NoPoll]
    /\ UNCHANGED <<job, run, queue, qclock, cont, wait, trig, sched, cmd, reap, picks, marks, crashes, resumed, now, shut>>

\* The context is cancelled while the claim transaction is open: the UPDATE
\* or the Commit fails and the transaction is rolled back.
PollCancelled(w) ==
    /\ poll[w].pc = "tx"
    /\ shut # "up"
    /\ queue' = [queue EXCEPT ![poll[w].q].lock = 0]
    /\ poll' = [poll EXCEPT ![w] = NoPoll]
    /\ UNCHANGED <<job, run, qclock, cont, wait, sup, activeRuns, trig, sched, cmd, reap, picks, marks, crashes, resumed, now, shut>>

\* Worker.Run returns on ctx.Done() or stopCh; a tick taken after the
\* cancellation fails in Begin.
ShutdownPoll(w) ==
    \/ shut = "up" /\ PollSelect(w)
    \/ PollCommitTx(w)
    \/ PollSpawn(w)
    \/ PollCancelled(w)

\* main: workerCancel(), then Shutdown closes stopCh and starts wg.Wait().
ShutdownBegin ==
    /\ shut = "up"
    /\ shut' = "waiting"
    /\ UNCHANGED <<job, run, queue, qclock, cont, wait, sup, activeRuns, poll, trig, sched, cmd, reap, picks, marks, crashes, resumed, now>>

\* The WaitGroup counter: executeRun goroutines added and not yet Done.
WaitGroupCount == Cardinality({r \in Runs : sup[r].pc # "none"})

\* wg.Wait() returns, done is closed: "All runs completed".
ShutdownDone ==
    /\ shut = "waiting"
    /\ WaitGroupCount = 0
    /\ shut' = "done"
    /\ UNCHANGED <<job, run, queue, qclock, cont, wait, sup, activeRuns, poll, trig, sched, cmd, reap, picks, marks, crashes, resumed, now>>

\* time.After(timeout) fires first: "some runs may be orphaned".
ShutdownTimeout ==
    /\ shut = "waiting"
    /\ WaitGroupCount > 0
    /\ shut' = "timedout"
    /\ UNCHANGED <<job, run, queue, qclock, cont, wait, sup, activeRuns, poll, trig, sched, cmd, reap, picks, marks, crashes, resumed, now>>

\* main returns after Shutdown: the process and all its goroutines end; the
\* store and the containers stay as they are.
ProcessExit ==
    /\ shut \in {"done", "timedout"}
    /\ shut' = IF shut = "done" THEN "exited" ELSE "orphaned"
    /\ sup' = [r \in Runs |-> NoSup]
    /\ wait' = [r \in Runs |-> "unreg"]
    /\ activeRuns' = [w \in Workers |-> 0]
    /\ poll' = [w \in Workers |-> NoPoll]
    /\ queue' = [r \in Runs |-> [queue[r] EXCEPT !.lock = 0]]
    /\ trig' = 0
    /\ UNCHANGED <<job, run, qclock, cont, sched, cmd, reap, picks, marks, crashes, resumed, now>>

Alive == shut \notin {"exited", "orphaned"}

\* --------------------------------------------- failing store statements
\* The container_id UPDATE fails: the error is discarded and executeRun goes
\* on; container_id stays NULL.
SupStoreContainerIDFails(r) ==
    /\ sup[r].pc = "storecid"
    /\ wait' = [wait EXCEPT ![r] = "spawned"]
    /\ sup' = [sup EXCEPT ![r].pc = "start"]
    /\ UNCHANGED <<job, run, queue, qclock, cont, activeRuns, poll, trig, sched, cmd, reap, picks, marks, crashes, resumed, now, shut>>

\* PullImage, CreateContainer or StartContainer fails and the UPDATE of
\* failRun fails too: the error is logged and the failure path goes on.
failRunFails(r) ==
    /\ sup[r].pc \in {"pull", "create", "start"}
    /\ sup' = [sup EXCEPT ![r].pc = IF sup[r].pc = "start" THEN "fremove" ELSE "fcleanup"]
    /\ UNCHANGED <<job, run, queue, qclock, cont, wait, activeRuns, poll, trig, sched, cmd, reap, picks, marks, crashes, resumed, now, shut>>

\* The terminal UPDATE of executeRun fails: the error is logged and the
\* cleanup goes on.
SupFinalWriteFails(r) ==
    /\ sup[r].pc = "final"
    /\ sup' = [sup EXCEPT ![r].pc = "cleanup"]
    /\ UNCHANGED <<job, run, queue, qclock, cont, wait, activeRuns, poll, trig, sched, cmd, reap, picks, marks, crashes, resumed, now, shut>>

StoreWriteFails(r) ==
    \/ SupMarkRunningFails(r)
    \/ SupStoreContainerIDFails(r)
    \/ failRunFails(r)
    \/ SupFinalWriteFails(r)

\* -------------------------------------------------------- specifications
Supervise(r) ==
    \/ SupMarkRunning(r)
    \/ SupPullImage(r)
    \/ SupCreateContainer(r)
    \/ SupStoreContainerID(r)
    \/ WaitRegister(r)
    \/ SupStartContainer(r)
    \/ ContainerExits(r)
    \/ SupWaitDone(r)
    \/ SupTimeout(r)
    \/ SupDrain(r)
    \/ SupFinalWrite(r)
    \/ SupCleanupQueue(r)
    \/ SupRemoveContainer(r)
    \/ SupFailRemove(r)
    \/ SupFailCleanup(r)
    \/ emitHeartbeat(r)

Trigger == TriggerNotFound \/ TriggerReturn \/ TriggerInsertRun \/ TriggerInsertQueue

Reaper == ReapQuery \/ ReapDocker \/ ReapUpdate \/ ReapDelete

Scheduler == SchedTick \/ SchedCount \/ SchedLast \/ SchedInsertRun \/ SchedInsertQueue

Control(r) == PauseRead(r) \/ ResumeRead(r) \/ KillRead(r)

ControlStep ==
    \/ PauseDocker \/ PauseUpdate
    \/ ResumeDocker \/ ResumeUpdate
    \/ KillDocker \/ KillUpdate \/ KillDelete
    \/ CmdReturn

Poll(w) == PollSelect(w) \/ PollCommit(w)

\* N worker processes polling one queue: triggers, claims and supervised
\* executions, with no panic, no crash and no control command.
NextPollers ==
    \/ Trigger
    \/ \E w \in Workers : Poll(w)
    \/ \E r \in Runs : Supervise(r)

SpecPollers == Init /\ [][NextPollers]_vars

\* One worker process with triggers: claims and supervised executions, with
\* panics and failing ContainerWait calls, no crash and no control command.
NextWorker ==
    \/ Trigger
    \/ \E w \in MainWorkers : Poll(w)
    \/ \E r \in Runs : Supervise(r) \/ WaitFails(r) \/ SupPanic(r)

SpecWorker == Init /\ [][NextWorker]_vars

\* One server process serving pause, resume and kill requests while its
\* worker supervises the runs.
Next ==
    \/ Trigger
    \/ \E w \in MainWorkers : Poll(w)
    \/ \E r \in Runs : Supervise(r) \/ Control(r)
    \/ ControlStep

Spec == Init /\ [][Next]_vars

\* One server process with its reaper, under process crashes, panics and
\* failed store statements (the queue insert, the mark-running update).
NextFaults ==
    \/ Trigger
    \/ TriggerInsertQueueFails
    \/ \E w \in MainWorkers : Poll(w)
    \/ \E r \in Runs : Supervise(r) \/ SupMarkRunningFails(r) \/ SupPanic(r) \/ HeartbeatExpires(r)
    \/ Reaper
    \/ WorkerCrash

SpecFaults == Init /\ [][NextFaults]_vars

\* One server process with its scheduler and manual triggers.
NextSched ==
    \/ Trigger
    \/ \E w \in MainWorkers : Poll(w)
    \/ \E r \in Runs : Supervise(r)
    \/ Scheduler
    \/ Tick

SpecSched == Init /\ [][NextSched]_vars

\* The background tasks the server's main starts: w.Run and w.RunReaper, with
\* the supervisors w.Run spawns and the clock their heartbeats age by.
\* RunScheduler is not started.
ServerTasks ==
    \/ \E w \in MainWorkers : Poll(w)
    \/ \E r \in Runs : Supervise(r) \/ HeartbeatExpires(r)
    \/ Reaper

\* One server process under a ticking clock: triggers, the worker, the
\* reaper and kill requests.
Kill == (\E r \in Runs : KillRead(r)) \/ KillDocker \/ KillUpdate \/ KillDelete \/ CmdReturn

ClockTrigger ==
    \/ TriggerNotFound
    \/ TriggerReturn
    \/ Cardinality(Runs \ FreeRunIds) < MaxClockRuns /\ TriggerInsertRun
    \/ TriggerInsertQueue

NextClock ==
    \/ ClockTrigger
    \/ \E w \in MainWorkers : Poll(w)
    \/ \E r \in Runs : Supervise(r) \/ HeartbeatExpires(r)
    \/ Reaper
    \/ Kill
    \/ Tick

SpecClock == Init /\ [][NextClock]_vars

\* One server process serving get, pause, resume, kill and logs requests of
\* the run's owner and of another user while its worker supervises the runs.
OwnerTrigger ==
    \/ TriggerNotFound
    \/ TriggerReturn
    \/ Cardinality(Runs \ FreeRunIds) < MaxOwnerRuns /\ TriggerInsertRun
    \/ TriggerInsertQueue

NextOwner ==
    \/ OwnerTrigger
    \/ \E w \in MainWorkers : Poll(w)
    \/ \E r \in Runs : Supervise(r)
    \/ \E u \in Callers, op \in RunOps, r \in Runs : RunRequest(u, op, r)
    \/ ControlStep
    \/ ReadReturn

SpecOwner == Init /\ [][NextOwner]_vars

\* One server process that is shut down gracefully while its worker claims
\* and supervises runs.
NextShutdown ==
    \/ Alive /\ Trigger
    \/ \E w \in MainWorkers : ShutdownPoll(w)
    \/ \E r \in Runs : Supervise(r) \/ HeartbeatExpires(r)
    \/ ShutdownBegin
    \/ ShutdownDone
    \/ ShutdownTimeout
    \/ ProcessExit

SpecShutdown == Init /\ [][NextShutdown]_vars

\* One server process with its reaper, where any store statement of a
\* supervisor may fail; no crash, no panic, no control command.
NextStore ==
    \/ Trigger
    \/ \E w \in MainWorkers : Poll(w)
    \/ \E r \in Runs : Supervise(r) \/ StoreWriteFails(r) \/ HeartbeatExpires(r)
    \/ Reaper

SpecStore == Init /\ [][NextStore]_vars

\* The claim query over a given queue table: rows of either priority, picked
\* or not, scheduled in the past or in the future (scheduled_at > now()),
\* with their pending runs, polled by N worker processes.
QueueRows ==
    {NoQueue} \cup [st : {"unclaimed", "picked"}, lock : {0},
                    sched : 1..(MaxRuns + 1), prio : 0..MaxPriority]
QueueTables ==
    {t \in [Runs -> QueueRows] :
        \A q, p \in Runs : (q # p /\ t[q].st # "none" /\ t[p].st # "none") => t[q].sched # t[p].sched}

InitClaim ==
    /\ job \in [timeout_seconds : TimeoutChoices, schedule : {EveryTick},
                exists : {TRUE}, is_active : {TRUE}, owned : {TRUE}]
    /\ queue \in QueueTables
    /\ run = [r \in Runs |-> IF queue[r].st = "none" THEN NoRun
                             ELSE [NoRun EXCEPT !.status = "pending", !.created_at = 0]]
    /\ qclock = MaxRuns
    /\ cont = [r \in Runs |-> "none"]
    /\ wait = [r \in Runs |-> "unreg"]
    /\ sup = [r \in Runs |-> NoSup]
    /\ activeRuns = [w \in Workers |-> 0]
    /\ poll = [w \in Workers |-> NoPoll]
    /\ trig = 0
    /\ sched = NoSched
    /\ cmd = NoCmd
    /\ reap = NoReap
    /\ picks = [r \in Runs |-> IF queue[r].st = "picked" THEN 1 ELSE 0]
    /\ marks = [r \in Runs |-> 0]
    /\ crashes = 0
    /\ resumed = {}
    /\ now = 0
    /\ shut = "up"

NextClaim == \E w \in Workers : Poll(w)

SpecClaim == InitClaim /\ [][NextClaim]_vars

\* The scheduler's decision over a given jobs row, job_runs table and time:
\* any schedule, an active or inactive job, prior runs of every status and
\* age; pending runs have their queue row.
RunStatuses == NonTerminal \cup Terminal
RunTables ==
    [Runs -> {NoRun} \cup {[NoRun EXCEPT !.status = st, !.created_at = t] :
                             st \in RunStatuses, t \in 0..MaxTime}]

InitDecide ==
    /\ job \in [timeout_seconds : {0}, schedule : Schedules,
                exists : {TRUE}, is_active : BOOLEAN, owned : {TRUE}]
    /\ run \in RunTables
    /\ now \in 0..MaxTime
    /\ \A r \in Runs : run[r].status # "none" => run[r].created_at <= now
    /\ queue = [r \in Runs |-> IF run[r].status = "pending"
                                 THEN [st |-> "unclaimed", lock |-> 0, sched |-> r, prio |-> 0]
                                 ELSE NoQueue]
    /\ qclock = MaxRuns
    /\ cont = [r \in Runs |-> "none"]
    /\ wait = [r \in Runs |-> "unreg"]
    /\ sup = [r \in Runs |-> NoSup]
    /\ activeRuns = [w \in Workers |-> 0]
    /\ poll = [w \in Workers |-> NoPoll]
    /\ trig = 0
    /\ sched = NoSched
    /\ cmd = NoCmd
    /\ reap = NoReap
    /\ picks = [r \in Runs |-> 0]
    /\ marks = [r \in Runs |-> 0]
    /\ crashes = 0
    /\ resumed = {}
    /\ shut = "up"

NextDecide == Scheduler

SpecDecide == InitDecide /\ [][NextDecide]_vars

\* ------------------------------------------------------------------ claims
IsTerminal(r) == run[r].status \in Terminal

\* C1. Terminal resolution: every accepted run (its queue row was inserted)
\* reaches succeeded, failed or cancelled, also when the worker process
\* crashes after the queue row has been claimed. Stated on the states where
\* the poll loop, the supervisors, the runtime, the clock and the reaper have
\* nothing left to do: there, every accepted run is terminal.
Progress ==
    \/ TriggerInsertQueue
    \/ \E w \in MainWorkers : Poll(w)
    \/ \E r \in Runs : Supervise(r) \/ HeartbeatExpires(r)
    \/ Reaper
Accepted(r) == run[r].status # "none" /\ (queue[r].st # "none" \/ picks[r] >= 1)

C1_TerminalResolution ==
    (~ENABLED Progress) => \A r \in Runs : Accepted(r) => IsTerminal(r)

\* C2. No resurrection: once a run is succeeded, failed or cancelled, no step
\* changes its status or its error_message.
C2_NoResurrection ==
    [][\A r \in Runs :
         IsTerminal(r) => /\ run'[r].status = run[r].status
                          /\ run'[r].err = run[r].err]_vars

\* C3. Single claim: no queue row is claimed twice, no run is marked running
\* twice, a run is marked running only after its row was claimed, and once
\* every inserted queue row has been claimed and its supervisor has passed the
\* mark-running update, the runs that entered running are exactly the queued ones.
EnteredRunning == {r \in Runs : marks[r] >= 1}
ClaimsSettled ==
    /\ \A r \in Runs : queue[r].st # "unclaimed" /\ sup[r].pc # "mark"
    /\ \A w \in Workers : poll[w].pc = "idle"
    /\ trig = 0

C3_SingleClaim ==
    /\ \A r \in Runs : picks[r] <= 1 /\ marks[r] <= 1 /\ marks[r] <= picks[r]
    /\ Cardinality(EnteredRunning) <= qclock
    /\ ClaimsSettled => Cardinality(EnteredRunning) = qclock

\* Two pollers hold claim transactions on different rows at the same time.
C3_Witness ==
    \E v, w \in Workers :
        /\ v # w
        /\ poll[v].pc = "tx" /\ poll[w].pc = "tx"
        /\ poll[v].q # poll[w].q

\* C4. Kill against the supervisor's terminal write: the first terminal write
\* wins and the second changes nothing, and no record mixes one side's status
\* with the other side's error_message.
SupWritesTerminal(r) == sup[r].pc = "final" /\ sup'[r].pc = "cleanup"
KillWritesTerminal(r) == cmd.op = "kill" /\ cmd.r = r /\ cmd.pc = "upd" /\ cmd'.pc = "del"
NoMixedRecord ==
    \A r \in Runs : IsTerminal(r) => (run[r].status = "cancelled" <=> run[r].err = "Killed by user")

C4_KillWins ==
    /\ []NoMixedRecord
    /\ [][\A r \in Runs :
            (IsTerminal(r) /\ (SupWritesTerminal(r) \/ KillWritesTerminal(r))) => run'[r] = run[r]]_vars

\* C5. Queue closure: no job_queue row exists for a terminal run. Stated for
\* the runs that no supervisor and no reaper pass is still working on, so
\* that a row whose delete is the writer's next statement is not counted.
BeingClosed(r) == sup[r].pc # "none" \/ (reap.pc # "idle" /\ reap.cur = r)

C5_QueueClosure ==
    \A r \in Runs : (IsTerminal(r) /\ ~BeingClosed(r)) => queue[r].st = "none"

\* C6. Every pending, running or paused run has an unclaimed queue row or is
\* held by a live supervisor. Stated for the runs whose trigger has returned,
\* so that the gap between a trigger's two inserts is not counted.
BeingEnqueued(r) == trig = r \/ (sched.pc = "insq" /\ sched.r = r)

C6_NonTerminalHeld ==
    \A r \in Runs :
        (run[r].status \in NonTerminal /\ ~BeingEnqueued(r)) =>
            (queue[r].st = "unclaimed" \/ sup[r].pc # "none")

\* C7. Bounded concurrency: per worker, the executions in flight and the
\* active counter never exceed MaxConcurrent, a claim transaction is open only
\* while the counter is below MaxConcurrent, and it holds one row.
InFlight(w) == {r \in Runs : sup[r].pc # "none" /\ sup[r].w = w}

C7_BoundedConcurrency ==
    \A w \in Workers :
        /\ Cardinality(InFlight(w)) <= MaxConcurrent
        /\ activeRuns[w] <= MaxConcurrent
        /\ poll[w].pc = "tx" => activeRuns[w] < MaxConcurrent
        /\ Cardinality({q \in Runs : queue[q].lock = w}) <= 1

\* A worker is at its limit while a claimable row waits in the queue.
C7_Witness ==
    \E w \in Workers :
        /\ Cardinality(InFlight(w)) = MaxConcurrent
        /\ \E q \in Runs : queue[q].st = "unclaimed" /\ queue[q].lock = 0

\* C8. Scheduler non-stacking: the scheduler inserts a run only while the job
\* has no run in pending, running or paused.
SchedulerEnqueues == sched.pc = "insrun" /\ sched'.pc = "insq"

C8_NonStacking ==
    [][SchedulerEnqueues => \A r \in Runs : run[r].status \notin NonTerminal]_vars

\* C9. Control-command preconditions: pause on a run that is not running or
\* has no container_id, resume on a run that is not paused or has no
\* container_id, and kill on a run that is neither running nor paused are
\* answered 409 without a runtime call and without a change to the run and
\* queue rows.
Precondition(op, r) ==
    CASE op = "pause" -> run[r].status = "running" /\ run[r].cid
      [] op = "resume" -> run[r].status = "paused" /\ run[r].cid
      [] op = "kill" -> run[r].status \in {"running", "paused"}
      [] OTHER -> TRUE
RequestArrives == cmd.op = "none" /\ cmd'.op # "none"
StoreAndRuntimeUnchanged ==
    /\ run' = run /\ queue' = queue /\ cont' = cont /\ wait' = wait

C9_Preconditions ==
    [][/\ (RequestArrives /\ ~Precondition(cmd'.op, cmd'.r)) =>
            (cmd'.pc = "409" /\ StoreAndRuntimeUnchanged)
       /\ (cmd.pc = "409" /\ cmd' # cmd) => (cmd' = NoCmd /\ StoreAndRuntimeUnchanged)]_vars

\* A pause request on a run with a container that is not running was refused.
C9_Witness ==
    /\ cmd.op = "pause" /\ cmd.pc = "409"
    /\ run[cmd.r].cid /\ run[cmd.r].status # "running"

\* C10. Every change of a run's status is one of the legal transitions.
LegalTransitions ==
    {<<"none", "pending">>,
     <<"pending", "running">>, <<"running", "paused">>, <<"paused", "running">>,
     <<"running", "succeeded">>, <<"running", "failed">>,
     <<"running", "cancelled">>, <<"paused", "cancelled">>,
     <<"paused", "failed">>, <<"pending", "failed">>}

C10_LegalTransitions ==
    [][\A r \in Runs :
         run'[r].status # run[r].status => <<run[r].status, run'[r].status>> \in LegalTransitions]_vars

\* C11. Monotone timestamps: created_at <= started_at <= finished_at when
\* present, and a terminal run that was started has duration_ms equal to
\* finished_at - started_at to within one millisecond.
Present(t) == t # Null
Within1(a, b) == a - b <= 1 /\ b - a <= 1

C11_MonotoneTimestamps ==
    \A r \in Runs :
        /\ (Present(run[r].created_at) /\ Present(run[r].started_at)) =>
               run[r].created_at <= run[r].started_at
        /\ (Present(run[r].started_at) /\ Present(run[r].finished_at)) =>
               run[r].started_at <= run[r].finished_at
        /\ (IsTerminal(r) /\ Present(run[r].started_at)) =>
               /\ Present(run[r].duration_ms)
               /\ Within1(run[r].duration_ms, run[r].finished_at - run[r].started_at)

\* C12. Enqueue atomicity: a pending run always has its job_queue row and a
\* job_queue row always has its run, also after a failed queue insert or a
\* process stop between the two inserts. Stated for the runs whose enqueue is
\* not in flight, so that only a pair left incomplete for good is counted.
C12_EnqueueAtomicity ==
    \A r \in Runs :
        /\ (run[r].status = "pending" /\ ~BeingEnqueued(r)) => queue[r].st # "none"
        /\ queue[r].st # "none" => run[r].status # "none"

\* C13. Terminal classification: the supervisor's terminal write is failed
\* with "timeout exceeded" when timedOut; else failed with the wait error's
\* message on a wait error; else succeeded with no error message on exit code
\* 0; else failed with "exit code <N>" and exit_code N.
C13_TerminalClassification ==
    [][\A r \in Runs :
         SupWritesTerminal(r) =>
            LET t == sup[r].timedOut
                w == sup[r].res
                st == run'[r].status
                msg == run'[r].err
            IN  /\ t => (st = "failed" /\ msg = "timeout exceeded")
                /\ (~t /\ w = "err") => (st = "failed" /\ msg = "wait error")
                /\ (~t /\ w = "res0") => (st = "succeeded" /\ msg = "" /\ run'[r].exit_code = "0")
                /\ (~t /\ w = "resN") => (st = "failed" /\ msg = "exit code" /\ run'[r].exit_code = "N")]_vars

\* The timer fired although the container had exited with code 0, and the
\* supervisor has written its terminal state.
C13_Witness ==
    \E r \in Runs :
        /\ sup[r].pc = "cleanup" /\ sup[r].timedOut /\ sup[r].res = "res0"
        /\ run[r].status = "failed" /\ run[r].err = "timeout exceeded"

\* C14. Timeout enforcement: the timer fires only for timeout_seconds > 0;
\* when it fires the supervisor stops the container, then drains the wait
\* result, and only then writes failed with "timeout exceeded"; with
\* timeout_seconds = 0 the supervisor never stops the container itself.
TimerFires(r) == sup[r].pc = "wait" /\ sup'[r].pc = "drain"

PreExecErrors == {"image pull failed", "container create failed", "container start failed"}
OnFailurePath(r) == sup[r].pc \in {"fremove", "fcleanup"}

C15_PreExecFailure ==
    /\ [](\A r \in Runs :
            /\ OnFailurePath(r) => (run[r].status = "failed" /\ run[r].err \in PreExecErrors)
            /\ run[r].err \in PreExecErrors => run[r].status = "failed"
            /\ sup[r].pc = "fcleanup" => cont[r] \in {"none", "removed"}
            /\ (run[r].err \in PreExecErrors /\ sup[r].pc = "none") =>
                  (queue[r].st = "none" /\ cont[r] \in {"none", "removed"}))
    /\ [][\A r \in Runs :
            /\ OnFailurePath(r) => sup'[r].pc \in {"fremove", "fcleanup", "none"}
            /\ (sup[r].pc \in {"pull", "create", "start"} /\ run'[r].status = "failed" /\ run[r].status # "failed"
                  /\ run'[r].err # "panic") =>
                  (OnFailurePath(r)' /\ run'[r].err \in PreExecErrors)]_vars

\* StartContainer failed: the run is failed, the created container is
\* removed, the queue row is gone and the supervisor has returned.
C15_Witness ==
    \E r \in Runs :
        /\ run[r].status = "failed" /\ run[r].err = "container start failed"
        /\ sup[r].pc = "none" /\ cont[r] = "removed" /\ queue[r].st = "none"

\* C16. Reaper: the reaper's update makes a stale run failed with "heartbeat
\* timeout", finished_at = now and heartbeat_at null only if the run is still
\* running or paused when the update is applied; a run made terminal since
\* the reaper's select keeps its terminal record.
ReaperUpdates == reap.pc = "upd" /\ reap'.pc = "del"

C16_ReaperConditional ==
    [][ReaperUpdates =>
          LET r == reap.cur IN
            IF run[r].status \in {"running", "paused"}
              THEN /\ run'[r].status = "failed" /\ run'[r].err = "heartbeat timeout"
                   /\ run'[r].finished_at = now /\ run'[r].hb = "null"
              ELSE run'[r] = run[r]]_vars

\* C17. Scheduler liveness in the running server: a scheduled job with no
\* prior run gets a pending run with a queue row from the server's own
\* background tasks. Stated on the states where these tasks have nothing
\* left to do: there, a run has been enqueued.
C17_SchedulerLiveness ==
    (job.exists /\ job.is_active /\ job.schedule # NoSchedule /\ ~ENABLED ServerTasks) => qclock >= 1

\* C18. Pause, don't kill: when a run's time limit elapses its container is
\* frozen and the run is left paused, not stopped and marked failed.
C18_PauseDontKill ==
    [][\A r \in Runs :
         /\ (TimerFires(r) /\ cont[r] = "running") => cont'[r] = "paused"
         /\ (SupWritesTerminal(r) /\ sup[r].timedOut) => run'[r].status = "paused"]_vars

\* C19. Trigger: for a job that exists, is active and is owned by the caller
\* a trigger inserts exactly one pending run and then exactly one queue row
\* for it; for any other job it answers not-found and inserts nothing.
TriggerArrives == trig = 0 /\ trig' # 0
TriggerAccepts == trig \in Runs /\ trig' = 0
OnlyRunInserted(r) ==
    /\ run[r].status = "none" /\ run'[r].status = "pending"
    /\ \A p \in Runs \ {r} : run'[p] = run[p]
OnlyQueueInserted(r) ==
    /\ queue[r].st = "none" /\ queue'[r].st = "unclaimed"
    /\ \A p \in Runs \ {r} : queue'[p] = queue[p]

C19_Trigger ==
    [][/\ TriggerArrives =>
            IF job.exists /\ job.is_active /\ job.owned
              THEN trig' \in Runs /\ OnlyRunInserted(trig') /\ queue' = queue
              ELSE trig' = StatusNotFound /\ run' = run /\ queue' = queue
       /\ (trig = StatusNotFound /\ trig' # trig) => (trig' = 0 /\ run' = run /\ queue' = queue)
       /\ TriggerAccepts => (OnlyQueueInserted(trig) /\ run' = run /\ run[trig].status = "pending")]_vars

\* A trigger of an inactive job of the caller was answered not-found.
C19_Witness ==
    /\ trig = StatusNotFound
    /\ job.exists /\ job.owned /\ ~job.is_active

\* C20. Pause/resume effect: a completed pause leaves the run paused with
\* paused_at set and its container frozen; a completed resume leaves it
\* running with paused_at null and its container thawed; a run that was
\* paused and resumed can still end succeeded.
PauseCompletes == cmd.op = "pause" /\ cmd.pc = "upd" /\ cmd' = NoCmd
ResumeCompletes == cmd.op = "resume" /\ cmd.pc = "upd" /\ cmd' = NoCmd

C20_PauseResume ==
    [][/\ PauseCompletes => (run'[cmd.r].status = "paused" /\ run'[cmd.r].paused_at)
       /\ ResumeCompletes => (run'[cmd.r].status = "running" /\ ~run'[cmd.r].paused_at)
       /\ (cmd.op = "pause" /\ cmd.pc = "docker" /\ cmd'.pc = "upd") => cont'[cmd.r] = "paused"
       /\ (cmd.op = "resume" /\ cmd.pc = "docker" /\ cmd'.pc = "upd") => cont'[cmd.r] = "running"]_vars

\* A run that was paused and resumed has exited with code 0 and ended
\* succeeded with no error, its supervisor done.
C20_Witness ==
    \E r \in resumed :
        /\ run[r].status = "succeeded" /\ run[r].err = "" /\ ~run[r].paused_at
        /\ run[r].exit_code = "0" /\ sup[r].pc = "none" /\ queue[r].st = "none"

\* C21. Owner isolation: a get, pause, resume, kill or logs request of a
\* caller who does not own the run is answered not-found, as for a run that
\* does not exist, whatever the run's status; it makes no runtime call and
\* changes nothing in the store, and so does the return of that response.
OtherArrives == RequestArrives /\ RunRequest("other", cmd'.op, cmd'.r)

C21_OwnerIsolation ==
    [][/\ OtherArrives => (cmd'.pc = "404" /\ StoreAndRuntimeUnchanged)
       /\ (cmd.pc = "404" /\ cmd' # cmd) => (cmd' = NoCmd /\ StoreAndRuntimeUnchanged)
       /\ (RequestArrives /\ ~Exists(cmd'.r)) => cmd'.pc = "404"]_vars

\* A kill request for a paused run with a container was answered not-found.
C21_Witness ==
    /\ cmd.op = "kill" /\ cmd.pc = "404"
    /\ run[cmd.r].status = "paused" /\ run[cmd.r].cid /\ cont[cmd.r] = "paused"

\* C22. Terminal write completeness: the update that takes a run from
\* running or paused to succeeded, failed or cancelled (the supervisor's,
\* failRun's, the kill's or the reaper's) sets finished_at and duration_ms
\* and clears heartbeat_at in that same update.
LeavesForTerminal(r) == run[r].status \in {"running", "paused"} /\ run'[r].status \in Terminal

C22_TerminalWriteComplete ==
    [][\A r \in Runs :
         LeavesForTerminal(r) =>
            /\ Present(run'[r].finished_at)
            /\ Present(run'[r].duration_ms)
            /\ run'[r].hb = "null"]_vars

\* C23. Queue cleanup on every exit path: when the supervised execution of a
\* claimed queue row returns (after success, a non-zero exit, a timeout, a
\* pull, create or start failure, a failed mark-running update or a panic),
\* that queue row has been deleted.
SupReturns(r) == sup[r].pc # "none" /\ sup'[r].pc = "none" /\ crashes' = crashes

C23_CleanupOnEveryPath ==
    [][\A r \in Runs : SupReturns(r) => queue'[r].st = "none"]_vars

\* C24. Panic discipline: a panic inside the supervised execution is caught
\* by the deferred recover, which writes failed through failRun before the
\* supervisor returns; no return of the supervisor, by panic or otherwise,
\* leaves the run running or paused.
PanicAborts(r) == SupReturns(r) /\ run'[r].err = "panic" /\ run' # run

C24_PanicDiscipline ==
    /\ [](\A r \in Runs : (picks[r] >= 1 /\ sup[r].pc = "none") => IsTerminal(r))
    /\ [][\A r \in Runs :
            /\ PanicAborts(r) => (run'[r].status = "failed" /\ run'[r].hb = "null")
            /\ SupReturns(r) => run'[r].status \notin {"running", "paused"}]_vars

\* The supervisor panicked while its container was running: it has returned
\* and the run is failed with the panic as its error.
C24_Witness ==
    \E r \in Runs :
        /\ sup[r].pc = "none" /\ cont[r] = "running"
        /\ run[r].status = "failed" /\ run[r].err = "panic"

\* C25. Heartbeat guard: a heartbeat tick changes nothing but heartbeat_at of
\* its own run, sets it only while the run is running or paused, and changes
\* nothing at all on a run in any other status, so a heartbeat_at cleared by
\* a terminal write stays null.
OnlyHeartbeatChanged(r) ==
    /\ \A p \in Runs \ {r} : run'[p] = run[p]
    /\ run'[r] = [run[r] EXCEPT !.hb = run'[r].hb]

C25_HeartbeatGuard ==
    [][\A r \in Runs :
         emitHeartbeat(r) =>
            /\ OnlyHeartbeatChanged(r)
            /\ run[r].status \in {"running", "paused"} => run'[r].hb = "fresh"
            /\ run[r].status \notin {"running", "paused"} => run' = run]_vars

\* An emitter is still ticking for a run that a terminal write has made
\* failed with heartbeat_at null.
C25_Witness ==
    \E r \in Runs :
        /\ sup[r].hb
        /\ run[r].status = "failed" /\ run[r].hb = "null" /\ Present(run[r].finished_at)

\* C26. Heartbeat start ordering: the heartbeat emitter of a supervised
\* execution is running from the mark-running update on, that is during
\* PullImage, CreateContainer and StartContainer as well as during the wait.
C26_HeartbeatStartOrdering ==
    \A r \in Runs :
        sup[r].pc \in {"pull", "create", "storecid", "start", "wait", "drain"} => sup[r].hb

\* C27. Wait-before-start: whenever StartContainer starts a container, the
\* WaitContainer call for that container is already registered with the
\* runtime, and an exit of the container always reaches the wait channel.
StartInvoked(r) == cont[r] = "created" /\ cont'[r] = "running"
ExitObserved(r) == cont[r] = "running" /\ cont'[r] = "exited"

C27_WaitBeforeStart ==
    [][\A r \in Runs :
         /\ StartInvoked(r) => wait[r] = "registered"
         /\ ExitObserved(r) => wait'[r] \in WaitResults]_vars

\* C28. Shutdown: once the worker's context is cancelled no further queue row
\* is claimed; Shutdown returns on its done branch only when every supervised
\* execution of a claimed row has returned, so that none runs once it has
\* returned that way; and a running or paused run cut off by the timeout has
\* a heartbeat that goes stale.
C28_Shutdown ==
    /\ [](shut = "done" => \A r \in Runs : sup[r].pc = "none")
    /\ [](shut = "orphaned" =>
            \A r \in Runs :
                run[r].status \in {"running", "paused"} =>
                    (run[r].hb = "stale" \/ ENABLED HeartbeatExpires(r)))
    /\ [][/\ shut # "up" => picks' = picks
          /\ (shut = "waiting" /\ shut' = "done") => \A r \in Runs : sup[r].pc = "none"]_vars

\* C29. Store-error backstop: when a store write of the supervisor fails
\* (mark-running, container_id, the terminal update or failRun's update) the
\* run still reaches a terminal state through the reaper. Stated on the
\* states where the poll loop, the supervisors, the clock and the reaper have
\* nothing left to do: there, every run whose supervisor has returned is
\* terminal.
Supervised(r) == picks[r] >= 1 /\ sup[r].pc = "none"

C29_StoreErrorBackstop ==
    (~ENABLED Progress) => \A r \in Runs : Supervised(r) => IsTerminal(r)

\* C30. container_id is written once per run, by the supervisor right after
\* CreateContainer returned the id, and is never cleared afterwards; the
\* supervisor's terminal update after the wait is written only once the
\* wait result has been received, and while the supervisor waits for it the
\* run's status is changed by nothing but the panic handler.
ContainerIdWritten(r) == ~run[r].cid /\ run'[r].cid

C30_WriteOrdering ==
    /\ [](\A r \in Runs :
            /\ run[r].cid => (cont[r] # "none" /\ picks[r] = 1)
            /\ sup[r].pc \in {"mark", "pull", "create", "storecid"} => ~run[r].cid
            /\ sup[r].pc \in {"final", "cleanup", "remove"} => sup[r].res \in WaitResults)
    /\ [][\A r \in Runs :
            /\ run[r].cid => run'[r].cid
            /\ ContainerIdWritten(r) => (sup[r].pc = "storecid" /\ cont[r] = "created")
            /\ SupWritesTerminal(r) => (sup[r].res \in WaitResults /\ wait[r] \notin WaitResults)
            /\ (sup[r].pc \in {"wait", "drain"} /\ run'[r].status # run[r].status) =>
                  run'[r].err = "panic"]_vars

\* A run whose container id was stored has been ended succeeded by its
\* supervisor on the received exit code 0.
C30_Witness ==
    \E r \in Runs :
        /\ sup[r].pc = "cleanup" /\ sup[r].res = "res0" /\ ~sup[r].timedOut
        /\ run[r].cid /\ run[r].status = "succeeded" /\ cont[r] = "exited"

\* C31. Claim selection: the row a claim locks has picked_at null and
\* scheduled_at <= now and is not locked by another transaction; no other
\* such row has a higher priority, or the same priority and an earlier
\* scheduled_at; the commit sets picked_at on that row and on no other; with
\* no eligible unlocked row no claim begins and nothing changes.
Eligible(q) == queue[q].st = "unclaimed" /\ queue[q].sched <= qclock
Free(q) == Eligible(q) /\ queue[q].lock = 0
ClaimBegins(w) == poll[w].pc = "idle" /\ poll'[w].pc = "tx"
ClaimCommits(w) == poll[w].pc = "tx" /\ poll'[w].pc = "idle"

C31_ClaimSelection ==
    [][\A w \in Workers :
         /\ ClaimBegins(w) =>
               LET q == poll'[w].q IN
                 /\ Free(q)
                 /\ \A p \in Runs \ {q} :
                       Free(p) => \/ queue[q].prio > queue[p].prio
                                  \/ queue[q].prio = queue[p].prio /\ queue[q].sched < queue[p].sched
                 /\ queue' = [queue EXCEPT ![q].lock = w]
         /\ ClaimCommits(w) =>
               LET q == poll[w].q IN
                 /\ queue'[q].st = "picked" /\ queue[q].st = "unclaimed"
                 /\ \A p \in Runs \ {q} : queue'[p] = queue[p]
         /\ (\A q \in Runs : ~Free(q)) => (poll'[w].pc = "tx" => poll[w].pc = "tx")]_vars

\* A claim holds a row of priority 1 while a row of priority 0 with an
\* earlier scheduled_at is eligible and unlocked, and a third kind of row,
\* already picked or scheduled in the future, is left alone.
C31_Witness ==
    \E w \in Workers :
        /\ poll[w].pc = "tx"
        /\ \E p \in Runs \ {poll[w].q} :
              /\ Free(p)
              /\ queue[p].prio < queue[poll[w].q].prio
              /\ queue[p].sched < queue[poll[w].q].sched

\* C32. Scheduler decision: a scheduler pass takes up only an active job with
\* a schedule; it decides to enqueue exactly when the expression parses, the
\* job has no pending, running or paused run, and the job has no prior run or
\* now is at or after the expression's next firing time after the created_at
\* of the most recent run; a positive decision inserts a pending run and then
\* its queue row; an inactive job, a job without a schedule and a job with an
\* invalid expression get no run and no queue row.
ValidExpressions == {"* * * * *", "*/2 * * * *"}
FiresAt(s, t) == IF s = "* * * * *" THEN TRUE ELSE t % 2 = 0
NextFire(s, t) == CHOOSE m \in (t + 1)..(t + 2) : FiresAt(s, m) /\ \A k \in (t + 1)..(m - 1) : ~FiresAt(s, k)
PriorRuns == {r \in Runs : run[r].status # "none"}
MostRecent == CHOOSE r \in PriorRuns : \A p \in PriorRuns : run[p].created_at <= run[r].created_at
ShouldEnqueue ==
    /\ job.schedule \in ValidExpressions
    /\ \A r \in Runs : run[r].status \notin {"pending", "running", "paused"}
    /\ \/ PriorRuns = {}
       \/ now >= NextFire(job.schedule, run[MostRecent].created_at)
Deciding == sched.pc \in {"count", "last"}

C32_SchedulerDecision ==
    [][/\ (sched.pc = "idle" /\ sched'.pc # "idle") =>
            (job.is_active /\ job.schedule \in ValidExpressions)
       /\ (Deciding /\ sched'.pc = "insrun") => ShouldEnqueue
       /\ (Deciding /\ sched'.pc = "idle") => ~ShouldEnqueue
       /\ (sched.pc = "insrun" /\ PriorRuns # Runs) =>
            /\ sched'.pc = "insq"
            /\ run[sched'.r].status = "none" /\ run'[sched'.r].status = "pending"
            /\ \A r \in Runs \ {sched'.r} : run'[r] = run[r]
       /\ sched.pc = "insq" =>
            /\ queue[sched.r].st = "none" /\ queue'[sched.r].st = "unclaimed"
            /\ \A r \in Runs \ {sched.r} : queue'[r] = queue[r]
       /\ (~job.is_active \/ job.schedule \notin ValidExpressions) =>
            (run' = run /\ queue' = queue)]_vars

\* The scheduler has inserted a run for a job whose earlier run is finished
\* and older than the expression's next firing time.
C32_Witness ==
    /\ sched.pc = "insq"
    /\ \E r \in Runs \ {sched.r} :
          /\ run[r].status \in {"succeeded", "failed", "cancelled"}
          /\ run[r].created_at < now
          /\ run[sched.r].created_at = now

\* C33. Kill action: a kill of a running or paused run first makes the
\* runtime calls (unpause if it was read as paused, stop, remove) without
\* touching the run or queue rows; only then, with no container of the run
\* left, it writes cancelled, "Killed by user", finished_at and duration_ms;
\* only after that it deletes the queue row; from the moment the handler
\* has returned, the cancelled run has no queue row.
KillAt(pc) == cmd.op = "kill" /\ cmd.pc = pc
ContainerGone(r) == cont[r] \notin {"created", "running", "paused", "exited"}

C33_KillAction ==
    /\ [](\A r \in Runs : (run[r].status = "cancelled" /\ ~(cmd.op = "kill" /\ cmd.r = r)) =>
                              queue[r].st = "none")
    /\ [][/\ (KillAt("docker") /\ cmd' # cmd) =>
               /\ cmd'.pc = "upd" /\ ContainerGone(cmd.r)'
               /\ run' = run /\ queue' = queue
          /\ (KillAt("upd") /\ cmd' # cmd) =>
               /\ cmd'.pc = "del" /\ queue' = queue
               /\ ContainerGone(cmd.r)
               /\ run'[cmd.r].status = "cancelled" /\ run'[cmd.r].err = "Killed by user"
               /\ run'[cmd.r].finished_at = now
               /\ run'[cmd.r].duration_ms = IF cmd.at = Null THEN 0 ELSE now - cmd.at
          /\ (KillAt("del") /\ cmd' # cmd) =>
               /\ cmd' = NoCmd /\ run' = run
               /\ queue'[cmd.r].st = "none"
               /\ \A q \in Runs \ {cmd.r} : queue'[q] = queue[q]]_vars

\* C34. Task cleanup: once a supervised execution has returned, by its normal
\* end, a start failure or a panic, the wait task it spawned has delivered
\* its result and ended, and no heartbeat emitter of the run is ticking.
WaitTaskLive(r) == wait[r] \in {"spawned", "registered"}
SupervisorReturned(r) == picks[r] >= 1 /\ sup[r].pc = "none" /\ crashes = 0

C34_TaskCleanup ==
    \A r \in Runs : SupervisorReturned(r) => (~sup[r].hb /\ ~WaitTaskLive(r))

\* C35. Active-run accounting: a worker's active counter always equals the
\* number of its executions that were spawned and have not returned; it is
\* never negative; it goes up by one only with the spawn that follows a
\* committed claim, and down by one only with the return of one execution,
\* whichever way that execution ends.
Spawned(w) == \E q \in Runs : sup[q].pc = "none" /\ sup'[q].pc # "none" /\ sup'[q].w = w /\ picks'[q] >= 1
Returned(w) == \E q \in Runs : sup[q].pc # "none" /\ sup[q].w = w /\ sup'[q].pc = "none"

C35_ActiveRunAccounting ==
    /\ [](\A w \in Workers : activeRuns[w] >= 0 /\ activeRuns[w] = Cardinality(InFlight(w)))
    /\ [][crashes' = crashes =>
            \A w \in Workers :
              /\ Spawned(w) <=> activeRuns'[w] = activeRuns[w] + 1
              /\ Returned(w) <=> activeRuns'[w] = activeRuns[w] - 1
              /\ activeRuns'[w] \in {activeRuns[w] - 1, activeRuns[w], activeRuns[w] + 1}]_vars

\* An execution has returned and the worker's next execution is in flight:
\* the counter went up, down and up again and reads one.
C35_Witness ==
    \E r, q \in Runs :
        /\ picks[r] >= 1 /\ sup[r].pc = "none"
        /\ sup[q].pc # "none" /\ sup[q].w = sup[r].w
        /\ activeRuns[sup[q].w] = 1

\* C36. No orphan container: while a run is terminal and no supervisor, kill
\* or reaper step for it is in progress, its container is neither running
\* nor paused; and a run the reaper has failed never has its container
\* started afterwards.
StepInProgress(r) ==
    \/ sup[r].pc # "none"
    \/ cmd.op = "kill" /\ cmd.r = r
    \/ reap.pc # "idle" /\ (reap.cur = r \/ r \in reap.todo)
ReaperFailed(r) == run[r].status = "failed" /\ run[r].err = "heartbeat timeout"

C36_NoOrphanContainer ==
    /\ [](\A r \in Runs : (IsTerminal(r) /\ ~StepInProgress(r)) => cont[r] \notin {"running", "paused"})
    /\ [][\A r \in Runs : ReaperFailed(r) => ~(cont[r] = "created" /\ cont'[r] = "running")]_vars

\* C37. The timeout timer is not suspended by pause: while a run with
\* timeout_seconds > 0 is paused and its supervisor waits, the timer can
\* fire; when it fires on the paused container the supervisor stops it,
\* leaving the run row paused; and the terminal write that follows takes the
\* run from paused to failed with "timeout exceeded".
PausedAndWaiting(r) == run[r].status = "paused" /\ cont[r] = "paused" /\ sup[r].pc = "wait"
TimedOutWrite(r) == sup[r].pc = "final" /\ sup[r].timedOut /\ sup'[r].pc = "cleanup"

RuntimeCall(op) == cmd.op = op /\ cmd.pc = "docker" /\ cmd' # cmd
Answers500 == cmd.pc = "500" /\ cmd' # cmd

C38_RuntimeFailure ==
    [][/\ RuntimeCall("pause") =>
            IF cont[cmd.r] = "running"
              THEN cmd'.pc = "upd" /\ cont'[cmd.r] = "paused" /\ run' = run
              ELSE cmd'.pc = "500" /\ cont' = cont /\ run' = run
       /\ RuntimeCall("resume") =>
            IF cont[cmd.r] = "paused"
              THEN cmd'.pc = "upd" /\ cont'[cmd.r] = "running" /\ run' = run
              ELSE cmd'.pc = "500" /\ cont' = cont /\ run' = run
       /\ Answers500 => (cmd' = NoCmd /\ run' = run /\ cont' = cont /\ queue' = queue)
       /\ \A r \in Runs :
            (run'[r].paused_at # run[r].paused_at \/
             (run'[r].status # run[r].status /\ "paused" \in {run[r].status, run'[r].status}
                /\ run'[r].status \notin Terminal)) =>
               (cmd.r = r /\ cmd.pc = "upd" /\ cmd.op \in {"pause", "resume"})]_vars

\* UnpauseContainer has failed for a paused run whose container the
\* supervisor's timeout had stopped: the answer is 500 and the run is
\* still paused with its paused_at.
C38_Witness ==
    /\ cmd.op = "resume" /\ cmd.pc = "500"
    /\ run[cmd.r].status = "paused" /\ run[cmd.r].paused_at

\* C39. Reaper frame: a reaper pass selects exactly the runs that are running
\* or paused with a non-null, stale heartbeat_at when its query runs; its
\* later steps work on selected runs only: it changes no row of job_runs but
\* the selected run at hand, deletes no queue row but that run's, and touches
\* no container but that run's; a run that was pending, had a null or fresh
\* heartbeat_at or was terminal at the query is never picked up by the pass.
Selected == {reap.cur} \cup reap.todo
HeartbeatStale(r) == run[r].hb \notin {"null", "fresh"}
ReaperSteps == reap' # reap /\ crashes' = crashes

C39_ReaperFrame ==
    [][ReaperSteps =>
         /\ reap.pc = "idle" =>
               /\ Selected' = {r \in Runs : run[r].status \in {"running", "paused"} /\ HeartbeatStale(r)}
               /\ run' = run /\ queue' = queue /\ cont' = cont
         /\ reap.pc # "idle" =>
               /\ reap'.pc # "idle" => Selected' \subseteq Selected
               /\ \A r \in Runs \ {reap.cur} :
                     run'[r] = run[r] /\ queue'[r] = queue[r] /\ cont'[r] = cont[r]
               /\ queue'[reap.cur] # queue[reap.cur] => (reap.pc = "del" /\ queue'[reap.cur].st = "none")
               /\ run'[reap.cur] # run[reap.cur] => reap.pc = "upd"]_vars

\* The reaper has failed a stale run and is about to delete its queue row,
\* while another run, pending or with a live heartbeat, is as it was.
C39_Witness ==
    /\ reap.pc = "del"
    /\ run[reap.cur].status = "failed" /\ run[reap.cur].err = "heartbeat timeout"
    /\ \E p \in Runs \ {reap.cur} :
          /\ run[p].status \in {"pending", "running"}
          /\ ~HeartbeatStale(p)
          /\ queue[p].st # "none"

====
